---- MODULE Spec2Model ----
(***************************************************************************)
(* Model of the dashboard's WebSocket client, class SocketService          *)
(* (src/unnamed/part_002), together with the browser WebSocket objects it  *)
(* creates and the retry timers it arms.                                   *)
(*                                                                         *)
(* Every action is one JavaScript task: a call made by a component         *)
(* (connect, disconnect, subscribe, unsubscribe, sendMessage), an event a  *)
(* WebSocket delivers to the handlers connect() installed on it, or the    *)
(* firing of a setTimeout callback armed by handleReconnect.  The methods  *)
(* are operators on a record S holding the fields of the service and the   *)
(* environment, so that a handler is the composition of the calls it makes.*)
(*                                                                         *)
(* The subscription table of the older EventSource client, class           *)
(* SocketService of src/frontend/src/services/socketService.ts, is         *)
(* modelled next to it (the definitions whose names start with sse).       *)
(***************************************************************************)
EXTENDS Integers, Sequences, FiniteSets, TLC

VARIABLES
  url,                     \* this.url: whether the WebSocket constructor accepts it
  websocket,               \* this.websocket: 0 is null, i > 0 the i-th WebSocket created
  subscribers,             \* this.subscribers: kind -> Set of callbacks, in insertion order
  reconnectAttempts,       \* this.reconnectAttempts
  isManuallyDisconnected,  \* this.isManuallyDisconnected
  connectionState,         \* this.connectionState
  sockets,                 \* every WebSocket created so far: readyState, and whether it was ever open
  timers,                  \* number of pending setTimeout callbacks armed by handleReconnect
  lastDelay,               \* delay (ms) of the most recently armed retry timer, 0 if none yet
  op,                      \* the task that ran last
  arg,                     \* what the last task was given: <<kind, callback>> of a
                           \* subscribe/unsubscribe, <<i>> of an event of WebSocket i,
                           \* <<i, frame>> of a frame delivered by WebSocket i
  handles,                 \* <<kind, callback>> of the functions subscribe has returned
  before,                  \* this.subscribers when the last task started
  envelopes,               \* kinds passed to notifySubscribers by the last task, in order
  dispatched,              \* the calls of notifySubscribers made by the last task: the kind,
                           \* the message object, and this.reconnectAttempts at the call
  invoked,                 \* callback invocations made by the last task, in order: the kind,
                           \* the callback, the message object it was given, whether it
                           \* was registered, the callbacks still to visit, and what the
                           \* callback did
  sendResult,              \* outcome of the last task's sendMessage: none, sent, rejected, failed
  callerDisconnected,      \* the caller's last connect()/disconnect() call was disconnect()
  failedOpens,             \* consecutive open attempts that ended without an open event
  closes,                  \* consecutive closes seen with the manual flag clear, no open in between
  maxRetriesSent,          \* max_retries_reached envelopes dispatched since the last open event
  phase,                   \* per WebSocket: which of its events were announced to the
                           \* listeners: new (none yet), open, ended
  trail,                   \* the connection_* envelopes the socket events dispatched, with
                           \* the counter at each dispatch, from the first close or error
                           \* that followed an open event on
  discards,                \* why frames were discarded so far: unparsable, untyped
  sseSubscribers,          \* EventSource client: this.subscribers, kind -> array of callbacks
  sseInvoked,              \* EventSource client: the callback invocations of the last
                           \* dispatch: the callback, and whether it was registered
  sseOp                    \* EventSource client: the task that ran last

vars == <<url, websocket, subscribers, reconnectAttempts, isManuallyDisconnected,
          connectionState, sockets, timers, lastDelay, op, arg, handles, before, envelopes,
          dispatched, invoked,
          sendResult, callerDisconnected, failedOpens, closes, maxRetriesSent,
          phase, trail, discards, sseSubscribers, sseInvoked, sseOp>>

\* the variables of the WebSocket client
wsVars == <<url, websocket, subscribers, reconnectAttempts, isManuallyDisconnected,
            connectionState, sockets, timers, lastDelay, op, arg, handles, before,
            envelopes, dispatched, invoked, sendResult, callerDisconnected,
            failedOpens, closes, maxRetriesSent, phase, trail, discards>>

(***************************************************************************)
(* Bounds of the model.                                                    *)
(***************************************************************************)
MaxSockets == 4           \* WebSockets created in one behaviour of Spec
MaxRetrySockets == 12     \* WebSockets created in one behaviour of SpecRetry
MaxRouterSockets == 1     \* WebSockets created in one behaviour of SpecRouter
MaxFrameSockets == 2      \* WebSockets created in one behaviour of SpecFrames
MaxRefreshSockets == 4    \* WebSockets created in one behaviour of SpecRefresh
MaxTimers == 2            \* retry timers pending at the same time
MaxGiveUps == 2           \* max_retries_reached envelopes between two open events
MaxVisits == 6            \* callback invocations explored in one forEach
MaxSseSubs == 3           \* callbacks in one array of the EventSource client

(***************************************************************************)
(* Program constants.                                                      *)
(***************************************************************************)
maxReconnectAttempts == 10
baseDelay == 1000
maxDelay == 32000

Listeners == {"f", "g"}

\* the backend message types mapBackendEventType renames
BackendTypes == {"initial_state", "worker:registered", "worker:deregistered",
                 "worker:disconnected", "health:update", "metrics:update",
                 "resources:update", "command:response"}

\* the kinds components subscribe to in the model
SubKinds == {"connection_closed", "worker_registered"}

\* What a callback does when it is invoked: nothing, throw, or call
\* unsubscribe / subscribe on the service for a callback and the kind that
\* is being dispatched ("resub": unsubscribe, then subscribe).
Behaviours ==
  {[act |-> "ok", lis |-> ""], [act |-> "throw", lis |-> ""]}
  \cup [act : {"unsub", "sub"}, lis : Listeners]
AllOk == [l \in Listeners |-> [act |-> "ok", lis |-> ""]]

----------------------------------------------------------------------------
(***************************************************************************)
(* JavaScript Set of callbacks: a list of entries in insertion order.      *)
(* Deleting a value marks its entry, so that the positions of the entries  *)
(* a running forEach has not visited yet do not move; adding a value that  *)
(* is not in the Set appends an entry.  Marked entries are dropped when    *)
(* no forEach is running.                                                  *)
(***************************************************************************)
Values(list) == {list[i].cb : i \in {j \in 1..Len(list) : ~list[j].del}}

SetAdd(list, l) ==
  IF l \in Values(list) THEN list ELSE Append(list, [cb |-> l, del |-> FALSE])

SetDelete(list, l) ==
  [i \in 1..Len(list) |-> IF list[i].cb = l THEN [list[i] EXCEPT !.del = TRUE] ELSE list[i]]

RECURSIVE Compact(_)
Compact(list) ==
  IF list = <<>> THEN <<>>
  ELSE IF Head(list).del THEN Compact(Tail(list))
       ELSE <<Head(list)>> \o Compact(Tail(list))

Put(t, k, v) == [x \in DOMAIN t \cup {k} |-> IF x = k THEN v ELSE t[x]]

\* A JavaScript value that can come out of an object literal indexed by a
\* string: a string, or a member the literal inherits from Object.prototype
Str(s) == [tag |-> "string", name |-> s]

\* The members an object literal ({} of line 35, the mapping of lines
\* 153-162) inherits: obj[n] finds them when obj has no own property n.
\* All of them are functions, but __proto__, which is Object.prototype
\* itself; all are truthy and none is a Set.
ObjectPrototype ==
  [n \in {"constructor", "hasOwnProperty", "isPrototypeOf",
          "propertyIsEnumerable", "toLocaleString", "toString", "valueOf",
          "__defineGetter__", "__defineSetter__", "__lookupGetter__",
          "__lookupSetter__", "__proto__"} |->
     IF n = "__proto__" THEN [tag |-> "object", name |-> "Object"]
     ELSE [tag |-> "function", name |-> IF n = "constructor" THEN "Object" ELSE n]]

\* obj[k] is an inherited member: k is no own property of obj
Inherited(obj, k) == k \notin DOMAIN obj /\ k \in DOMAIN ObjectPrototype

\* the property key a value becomes when it indexes an object
\* (this.subscribers[eventType], line 224): its conversion to a string
ToPropertyKey(v) ==
  CASE v.tag = "string"   -> v.name
    [] v.tag = "function" -> "function " \o v.name \o "() { [native code] }"
    [] v.tag = "object"   -> "[object Object]"

Registered(t, k, l) == k \in DOMAIN t /\ l \in Values(t[k])

----------------------------------------------------------------------------
(***************************************************************************)
(* The service and its environment as one record.                          *)
(***************************************************************************)
Cur == [url |-> url, websocket |-> websocket, subscribers |-> subscribers,
        reconnectAttempts |-> reconnectAttempts,
        isManuallyDisconnected |-> isManuallyDisconnected,
        connectionState |-> connectionState, sockets |-> sockets,
        timers |-> timers, lastDelay |-> lastDelay,
        envelopes |-> <<>>, dispatched |-> <<>>, invoked |-> <<>>, exc |-> FALSE]

\* subscribe(eventType, callback), lines 200-210.  For a kind that names
\* an inherited member, this.subscribers[eventType] is that member: no Set
\* is created, .add is not a function and the call throws a TypeError
subscribe(S, k, l) ==
  IF Inherited(S.subscribers, k) THEN [S EXCEPT !.exc = TRUE]
  ELSE LET t == IF k \in DOMAIN S.subscribers THEN S.subscribers
                ELSE Put(S.subscribers, k, <<>>)
       IN [S EXCEPT !.subscribers = Put(t, k, SetAdd(t[k], l))]

\* unsubscribe written with splice(indexOf(callback), 1) on an array: when
\* the callback is absent, indexOf is -1 and the last entry is removed
unsubscribeSplice(S, k, l) ==
  IF k \notin DOMAIN S.subscribers THEN S
  ELSE LET list == S.subscribers[k]
           kept == {i \in 1..Len(list) : ~list[i].del}
           last == CHOOSE i \in kept : \A j \in kept : j <= i
       IN IF l \in Values(list) \/ kept = {}
          THEN [S EXCEPT !.subscribers[k] = SetDelete(list, l)]
          ELSE [S EXCEPT !.subscribers[k][last].del = TRUE]

\* unsubscribe that removes the callback from every kind
unsubscribeEverywhere(S, k, l) ==
  IF k \notin DOMAIN S.subscribers THEN S
  ELSE [S EXCEPT !.subscribers =
          [x \in DOMAIN S.subscribers |-> SetDelete(S.subscribers[x], l)]]

\* unsubscribe(eventType, callback), lines 215-218.  An inherited member
\* passes the test of line 216 and has no .delete: the call throws
unsubscribe(S, k, l) ==
  IF Inherited(S.subscribers, k) THEN [S EXCEPT !.exc = TRUE]
  ELSE IF k \notin DOMAIN S.subscribers THEN S
  ELSE [S EXCEPT !.subscribers[k] = SetDelete(S.subscribers[k], l)]

\* the body of one callback invoked for kind k, as chosen by beh
RunCallback(S, k, beh) ==
  CASE beh.act = "ok"    -> S
    [] beh.act = "throw" -> [S EXCEPT !.exc = TRUE]
    [] beh.act = "unsub" -> unsubscribe(S, k, beh.lis)
    [] beh.act = "sub"   -> subscribe(S, k, beh.lis)
    [] beh.act = "resub" -> subscribe(unsubscribe(S, k, beh.lis), k, beh.lis)

\* callback(message) without the try/catch
TryCallbackNoCatch(S, k, beh) == RunCallback(S, k, beh)

\* the try/catch around callback(message), lines 227-231
TryCallback(S, k, beh) == [RunCallback(S, k, beh) EXCEPT !.exc = FALSE]

\* forEach over a copy of the Set taken when the dispatch started: an entry
\* deleted during the dispatch is still visited
RECURSIVE forEachCopy(_, _, _, _, _)
forEachCopy(S, k, i, n, b) ==
  IF S.exc \/ i > Len(S.subscribers[k]) \/ n >= MaxVisits THEN S
  ELSE LET l == S.subscribers[k][i].cb
           S1 == [S EXCEPT !.invoked = Append(S.invoked,
                          [kind |-> k, lis |-> l,
                           msg |-> S.dispatched[Len(S.dispatched)].msg,
                           live |-> Registered(S.subscribers, k, l),
                           pending |-> Values(SubSeq(S.subscribers[k], i + 1,
                                                     Len(S.subscribers[k]))),
                           act |-> b[l].act, target |-> b[l].lis])]
       IN forEachCopy(TryCallback(S1, k, b[l]), k, i + 1, n + 1, b)

\* Set.prototype.forEach over this.subscribers[eventType], lines 226-232
RECURSIVE forEach(_, _, _, _, _)
forEach(S, k, i, n, b) ==
  IF S.exc \/ i > Len(S.subscribers[k]) \/ n >= MaxVisits THEN S
  ELSE LET l == S.subscribers[k][i].cb IN
       IF S.subscribers[k][i].del THEN forEach(S, k, i + 1, n, b)
       ELSE LET S1 == [S EXCEPT !.invoked = Append(S.invoked,
                          [kind |-> k, lis |-> l,
                           msg |-> S.dispatched[Len(S.dispatched)].msg,
                           live |-> Registered(S.subscribers, k, l),
                           pending |-> Values(SubSeq(S.subscribers[k], i + 1,
                                                     Len(S.subscribers[k]))),
                           act |-> b[l].act, target |-> b[l].lis])]
            IN forEach(TryCallback(S1, k, b[l]), k, i + 1, n + 1, b)

CompactAll(t) == [k \in DOMAIN t |-> Compact(t[k])]

\* no forEach is running: the entries marked deleted are gone
Settled(S) == [S EXCEPT !.subscribers = CompactAll(S.subscribers)]

\* notifySubscribers(eventType, message), lines 223-233; k is the property
\* key eventType indexes this.subscribers with.  An inherited member passes
\* the test of line 224 and has no .forEach: the call throws
notifySubscribers(S, k, m, b) ==
  LET S1 == [S EXCEPT !.envelopes = Append(S.envelopes, k),
                      !.dispatched = Append(S.dispatched,
                                            [kind |-> k, msg |-> m,
                                             attempts |-> S.reconnectAttempts])] IN
  IF Inherited(S1.subscribers, k) THEN [S1 EXCEPT !.exc = TRUE]
  ELSE IF k \notin DOMAIN S1.subscribers THEN S1
  ELSE Settled(forEach(S1, k, 1, 0, b))

\* the message object of an envelope the client makes itself, lines 70-74,
\* 84-88, 101-105, 174-178; payload names the field the payload object holds
Synthetic(k, field) == [type |-> k, payload |-> field]

\* Math.min(baseDelay * Math.pow(2, attempts - 1), 32000), line 186
Min(a, b) == IF a <= b THEN a ELSE b

\* the delay without the cap
DelayUncapped(attempts) == baseDelay * 2 ^ (attempts - 1)

Delay(attempts) == Min(baseDelay * 2 ^ (attempts - 1), maxDelay)

\* handleReconnect(), lines 171-194
handleReconnect(S, b) ==
  IF S.reconnectAttempts >= maxReconnectAttempts
  THEN notifySubscribers(S, "max_retries_reached",
                         Synthetic("max_retries_reached", "message"), b)
  ELSE [S EXCEPT !.reconnectAttempts = S.reconnectAttempts + 1,
                 !.lastDelay = Delay(S.reconnectAttempts + 1),
                 !.timers = S.timers + 1]

\* connect() that starts every attempt with the counter at 0
connectResets(S, b) ==
  IF S.connectionState \in {"connecting", "connected"} THEN S
  ELSE LET S1 == [S EXCEPT !.connectionState = "connecting",
                           !.isManuallyDisconnected = FALSE,
                           !.reconnectAttempts = 0]
       IN IF S.url = "invalid"
          THEN handleReconnect([S1 EXCEPT !.connectionState = "disconnected"], b)
          ELSE [S1 EXCEPT !.sockets = Append(S.sockets,
                                         [rs |-> "CONNECTING", est |-> FALSE]),
                          !.websocket = Len(S.sockets) + 1]

\* connect(), lines 51-118; new WebSocket(url) throws a SyntaxError on a url
\* that is not a ws: or wss: url, which the catch block turns into a retry
connect(S, b) ==
  IF S.connectionState \in {"connecting", "connected"} THEN S
  ELSE LET S1 == [S EXCEPT !.connectionState = "connecting",
                           !.isManuallyDisconnected = FALSE]
       IN IF S.url = "invalid"
          THEN handleReconnect([S1 EXCEPT !.connectionState = "disconnected"], b)
          ELSE [S1 EXCEPT !.sockets = Append(S.sockets,
                                         [rs |-> "CONNECTING", est |-> FALSE]),
                          !.websocket = Len(S.sockets) + 1]

\* WebSocket.prototype.close(): a socket that is connecting or open starts closing
close(S, i) ==
  IF S.sockets[i].rs \in {"CONNECTING", "OPEN"}
  THEN [S EXCEPT !.sockets[i].rs = "CLOSING"]
  ELSE S

\* disconnect that also forgets the listeners
disconnectClears(S, manual) ==
  LET S1 == IF manual THEN [S EXCEPT !.isManuallyDisconnected = TRUE] ELSE S
      S2 == IF S1.websocket # 0
            THEN [close(S1, S1.websocket) EXCEPT !.websocket = 0]
            ELSE S1
  IN [S2 EXCEPT !.connectionState = "disconnected", !.subscribers = [k \in {} |-> <<>>]]

\* disconnect(manual), lines 287-299
disconnect(S, manual) ==
  LET S1 == IF manual THEN [S EXCEPT !.isManuallyDisconnected = TRUE] ELSE S
      S2 == IF S1.websocket # 0
            THEN [close(S1, S1.websocket) EXCEPT !.websocket = 0]
            ELSE S1
  IN [S2 EXCEPT !.connectionState = "disconnected"]

\* onopen that notifies the listeners before it resets the counter
onopenLate(S, b) ==
  [notifySubscribers([S EXCEPT !.connectionState = "connected"],
                     "connection_open", Synthetic("connection_open", "connected"), b)
     EXCEPT !.reconnectAttempts = 0]

\* onopen that does not notify the listeners
onopenSilent(S, b) ==
  [S EXCEPT !.reconnectAttempts = 0, !.connectionState = "connected"]

\* onopen that leaves the counter as it is
onopenKeepCounter(S, b) ==
  notifySubscribers([S EXCEPT !.connectionState = "connected"],
                    "connection_open", Synthetic("connection_open", "connected"), b)

\* websocket.onopen, lines 64-75
onopen(S, b) ==
  notifySubscribers([S EXCEPT !.reconnectAttempts = 0,
                              !.connectionState = "connected"],
                    "connection_open", Synthetic("connection_open", "connected"), b)

\* onclose that never schedules a retry
oncloseNoRetry(S, b) ==
  notifySubscribers([S EXCEPT !.connectionState = "disconnected"],
                    "connection_closed", Synthetic("connection_closed", "code"), b)

\* websocket.onclose, lines 78-93
onclose(S, b) ==
  LET S1 == notifySubscribers([S EXCEPT !.connectionState = "disconnected"],
                              "connection_closed",
                              Synthetic("connection_closed", "code"), b)
  IN IF S1.exc THEN S1
     ELSE IF ~S1.isManuallyDisconnected THEN handleReconnect(S1, b) ELSE S1

\* onerror that schedules a retry as onclose does
onerrorRetries(S, b) ==
  LET S1 == notifySubscribers([S EXCEPT !.connectionState = "disconnected"],
                              "connection_error", Synthetic("connection_error", "error"), b)
  IN IF ~S1.isManuallyDisconnected THEN handleReconnect(S1, b) ELSE S1

\* websocket.onerror, lines 96-106
onerror(S, b) ==
  notifySubscribers([S EXCEPT !.connectionState = "disconnected"],
                    "connection_error", Synthetic("connection_error", "error"), b)

\* an exception that leaves an event handler or a timer callback is reported
\* by the browser and goes no further
Reported(S) == [S EXCEPT !.exc = FALSE]

\* the setTimeout callback of handleReconnect, lines 190-193
retryCallback(S, b) == connect(disconnect(S, FALSE), b)

----------------------------------------------------------------------------
Count(seq, x) == Cardinality({i \in 1..Len(seq) : seq[i] = x})

\* the tasks that are events of a WebSocket
SocketEvents == {"open", "close", "fail"}

\* what the listeners have been told about a WebSocket that was in phase ph,
\* after one of its events dispatched the kinds ks
Announced(ph, ks) ==
  IF \E i \in 1..Len(ks) : ks[i] \in {"connection_closed", "connection_error"}
  THEN "ended"
  ELSE IF \E i \in 1..Len(ks) : ks[i] = "connection_open" THEN "open"
  ELSE ph

\* the connection_* envelopes among the dispatches d, with the counter each saw
Told(d) ==
  LET c == SelectSeq(d, LAMBDA e : e.kind \in {"connection_open", "connection_closed",
                                               "connection_error"})
  IN [i \in 1..Len(c) |-> [kind |-> c[i].kind, attempts |-> c[i].attempts]]

\* install the result S of a task named o
Commit(S, o) ==
  /\ S.timers <= MaxTimers
  /\ url' = S.url
  /\ websocket' = S.websocket
  /\ subscribers' = S.subscribers
  /\ reconnectAttempts' = S.reconnectAttempts
  /\ isManuallyDisconnected' = S.isManuallyDisconnected
  /\ connectionState' = S.connectionState
  /\ sockets' = S.sockets
  /\ timers' = S.timers
  /\ lastDelay' = S.lastDelay
  /\ envelopes' = S.envelopes
  /\ dispatched' = S.dispatched
  /\ invoked' = S.invoked
  /\ op' = o
  /\ phase' = [i \in 1..Len(S.sockets) |->
                 IF i > Len(sockets) THEN "new"
                 ELSE IF o \in SocketEvents /\ arg'[1] = i
                      THEN Announced(phase[i], S.envelopes)
                      ELSE phase[i]]
  /\ trail' = IF o \notin SocketEvents THEN trail
              ELSE IF o # "open" /\ trail # <<>>
                      /\ trail[Len(trail)].kind = "connection_open"
                   THEN Told(S.dispatched)
                   ELSE trail \o Told(S.dispatched)
  /\ discards' = IF o = "message" /\ S.dispatched = <<>>
                 THEN discards \cup {IF arg'[2].json THEN "untyped" ELSE "unparsable"}
                 ELSE discards
  /\ UNCHANGED <<sseSubscribers, sseInvoked, sseOp>>
  /\ before' = subscribers
  /\ handles' = IF o = "subscribe" /\ ~S.exc THEN handles \cup {arg'} ELSE handles

Init ==
  /\ url \in {"valid", "invalid"}
  /\ websocket = 0
  /\ subscribers = [k \in {} |-> <<>>]
  /\ reconnectAttempts = 0
  /\ isManuallyDisconnected = FALSE
  /\ connectionState = "disconnected"
  /\ sockets = <<>>
  /\ timers = 0
  /\ lastDelay = 0
  /\ op = "init"
  /\ arg = <<>>
  /\ handles = {}
  /\ before = [k \in {} |-> <<>>]
  /\ envelopes = <<>>
  /\ dispatched = <<>>
  /\ invoked = <<>>
  /\ sendResult = "none"
  /\ callerDisconnected = FALSE
  /\ failedOpens = 0
  /\ closes = 0
  /\ maxRetriesSent = 0
  /\ phase = <<>>
  /\ trail = <<>>
  /\ discards = {}
  /\ sseSubscribers = [k \in {} |-> <<>>]
  /\ sseInvoked = <<>>
  /\ sseOp = "init"

\* count the max_retries_reached envelopes of the task that produced S
GiveUps(S) ==
  /\ maxRetriesSent' = maxRetriesSent + Count(S.envelopes, "max_retries_reached")
  /\ maxRetriesSent' <= MaxGiveUps

\* mapBackendEventType(backendType), lines 152-165
Mapping ==
  [t \in BackendTypes |->
     CASE t = "initial_state"       -> "initial_data"
       [] t = "worker:registered"   -> "worker_registered"
       [] t = "worker:deregistered" -> "worker_deregistered"
       [] t = "worker:disconnected" -> "worker_status_change"
       [] t = "health:update"       -> "worker_status_update"
       [] t = "metrics:update"      -> "metrics_update"
       [] t = "resources:update"    -> "resources_update"
       [] t = "command:response"    -> "command_response"]

\* mapping[backendType] || backendType, line 164: the mapped name, the
\* member the mapping inherits under that name (truthy, so it is what is
\* returned), or else the type itself
mapBackendEventType(t) ==
  IF t \in DOMAIN Mapping THEN Str(Mapping[t])
  ELSE IF Inherited(Mapping, t) THEN ObjectPrototype[t]
  ELSE Str(t)

\* the key of this.subscribers under which handleMessage dispatches a frame
\* of type t, lines 136 and 140, 224
RoutedKind(t) == ToPropertyKey(mapBackendEventType(t))

\* Inbound frames: text that is not JSON, JSON without a type, and typed
\* frames; payload stands for the payload object of the frame ("w1": one
\* whose worker_id is w1)
Frames == {[json |-> FALSE, type |-> "", payload |-> ""],
           [json |-> TRUE, type |-> "", payload |-> "w1"],
           [json |-> TRUE, type |-> "worker:registered", payload |-> "w1"],
           [json |-> TRUE, type |-> "worker_registered", payload |-> "w1"],
           [json |-> TRUE, type |-> "connection_closed", payload |-> "w1"]}

\* handleMessage without the check of message.type
handleMessageUnchecked(S, frame, b) ==
  IF ~frame.json THEN S
  ELSE Reported(notifySubscribers(S, RoutedKind(frame.type),
                                  [type |-> frame.type, payload |-> frame.payload], b))

\* handleMessage that treats a frame it cannot parse as a failure of the
\* connection
handleMessageFatal(S, frame, b) ==
  IF ~frame.json
  THEN handleReconnect([S EXCEPT !.connectionState = "disconnected"], b)
  ELSE IF frame.type = "" THEN S
  ELSE Reported(notifySubscribers(S, RoutedKind(frame.type),
                                  [type |-> frame.type, payload |-> frame.payload], b))

\* handleMessage(rawMessage), lines 124-146
handleMessage(S, frame, b) ==
  IF ~frame.json THEN S
  ELSE IF frame.type = "" THEN S
  ELSE Reported(notifySubscribers(S, RoutedKind(frame.type),
                                  [type |-> frame.type, payload |-> frame.payload], b))

\* sendMessage(type, payload), lines 242-265: the outcome of the promise;
\* serial: JSON.stringify accepts the payload
sendMessage(S, serial) ==
  IF S.websocket = 0 \/ S.sockets[S.websocket].rs # "OPEN" THEN "rejected"
  ELSE IF serial THEN "sent" ELSE "failed"

AnyBehaviour == [Listeners -> Behaviours]

\* the behaviours to explore for a dispatch of kind k: what a callback does
\* matters only if the dispatch can invoke it, that is, if it is registered
\* for k or another callback subscribes it ("sub", "resub") during the
\* dispatch
BehavioursFor(B, k) ==
  IF k \in DOMAIN subscribers /\ subscribers[k] # <<>>
  THEN {b \in B : \A l \in Listeners \ Values(subscribers[k]) :
                    \/ b[l].act = "ok"
                    \/ \E l2 \in Listeners \ {l} :
                         b[l2].act \in {"sub", "resub"} /\ b[l2].lis = l}
  ELSE {AllOk}

\* a component calls connect(); a call that starts an attempt starts the
\* ghost counters afresh
ConnectWith(max, B) ==
  /\ Len(sockets) < max
  /\ \E b \in B :
       LET S == Reported(connect(Cur, b))
           n == Count(S.envelopes, "max_retries_reached")
       IN /\ Commit(S, "connect")
          /\ maxRetriesSent' = IF connectionState = "disconnected" THEN n
                               ELSE maxRetriesSent
          /\ maxRetriesSent' <= MaxGiveUps
  /\ failedOpens' = IF connectionState = "disconnected" THEN 0 ELSE failedOpens
  /\ closes' = IF connectionState = "disconnected" THEN 0 ELSE closes
  /\ sendResult' = "none"
  /\ callerDisconnected' = FALSE
  /\ arg' = <<>>

\* a component calls disconnect()
Disconnect ==
  /\ arg' = <<>>
  /\ Commit(disconnect(Cur, TRUE), "disconnect")
  /\ sendResult' = "none"
  /\ callerDisconnected' = TRUE
  /\ UNCHANGED <<failedOpens, closes, maxRetriesSent>>

\* a retry timer armed by handleReconnect fires
RetryTimerWith(max, B) ==
  /\ arg' = <<>>
  /\ timers > 0
  /\ Len(sockets) < max
  /\ \E b \in B :
       LET S == Reported(retryCallback([Cur EXCEPT !.timers = timers - 1], b)) IN
       /\ Commit(S, "timer")
       /\ GiveUps(S)
  /\ sendResult' = "none"
  /\ UNCHANGED <<callerDisconnected, failedOpens, closes>>

\* WebSocket i reports that the connection is established
SocketOpenWith(B) ==
  \E i \in 1..Len(sockets), b \in B :
    /\ sockets[i].rs = "CONNECTING"
    /\ arg' = <<i>>
    /\ Commit(Reported(onopen([Cur EXCEPT !.sockets[i] = [rs |-> "OPEN", est |-> TRUE]], b)),
              "open")
    /\ sendResult' = "none"
    /\ failedOpens' = 0
    /\ closes' = 0
    /\ maxRetriesSent' = 0
    /\ UNCHANGED callerDisconnected

\* the ghost counters after WebSocket i closed and the handlers produced S
Closed(i, S) ==
  /\ arg' = <<i>>
  /\ failedOpens' = IF sockets[i].rs = "CONNECTING" THEN failedOpens + 1 ELSE failedOpens
  /\ closes' = IF sockets[i].rs # "CLOSING" /\ ~isManuallyDisconnected
               THEN closes + 1 ELSE closes
  /\ GiveUps(S)
  /\ sendResult' = "none"
  /\ UNCHANGED callerDisconnected

\* the connection of WebSocket i, whose readyState is in R, fails: an error
\* event, then a close event
SocketFailOf(R, B) ==
  \E i \in 1..Len(sockets), b \in BehavioursFor(B, "connection_closed") :
    /\ sockets[i].rs \in R
    /\ LET S0 == [Cur EXCEPT !.sockets[i].rs = "CLOSED"]
           S1 == Reported(onerror(S0, b))
           S2 == Reported(onclose(S1, b))
       IN Closed(i, S2) /\ Commit(S2, "fail")

SocketFailWith(B) == SocketFailOf({"CONNECTING", "OPEN", "CLOSING"}, B)

\* the connection of WebSocket i, which was established and whose readyState
\* is in R, closes: a close event
SocketCloseOf(R, B) ==
  \E i \in 1..Len(sockets), b \in BehavioursFor(B, "connection_closed") :
    /\ sockets[i].rs \in R
    /\ sockets[i].est
    /\ LET S == Reported(onclose([Cur EXCEPT !.sockets[i].rs = "CLOSED"], b))
       IN Closed(i, S) /\ Commit(S, "close")

SocketCloseWith(B) == SocketCloseOf({"OPEN", "CLOSING"}, B)

\* the open WebSocket i delivers a frame of F
SocketMessageFrom(F, B) ==
  \E i \in 1..Len(sockets), frame \in F :
  \E b \in BehavioursFor(B, RoutedKind(frame.type)) :
    /\ sockets[i].rs = "OPEN"
    /\ arg' = <<i, frame>>
    /\ Commit(handleMessage(Cur, frame, b), "message")
    /\ sendResult' = "none"
    /\ UNCHANGED <<callerDisconnected, failedOpens, closes, maxRetriesSent>>

SocketMessageWith(B) == SocketMessageFrom(Frames, B)

\* the frames handleMessage dispatches
TypedFrames == {frame \in Frames : frame.json /\ frame.type # ""}

\* a component calls sendMessage(type, payload)
SendMessage ==
  /\ arg' = <<>>
  /\ \E serial \in BOOLEAN : sendResult' = sendMessage(Cur, serial)
  /\ Commit(Cur, "send")
  /\ UNCHANGED <<callerDisconnected, failedOpens, closes, maxRetriesSent>>

\* a component calls subscribe(k, l), <<k, l>> in P, and keeps the function
\* it returns
SubscribeIn(P) ==
  \E p \in P :
    /\ arg' = p
    /\ Commit(subscribe(Cur, p[1], p[2]), "subscribe")
    /\ sendResult' = "none"
    /\ UNCHANGED <<callerDisconnected, failedOpens, closes, maxRetriesSent>>

Subscribe == SubscribeIn(SubKinds \X Listeners)

\* unsubscribe(k, l) called outside any dispatch, as the task named o
UnsubscribeAs(k, l, o) ==
  /\ arg' = <<k, l>>
  /\ Commit(Settled(unsubscribe(Cur, k, l)), o)
  /\ sendResult' = "none"
  /\ UNCHANGED <<callerDisconnected, failedOpens, closes, maxRetriesSent>>

\* a component calls unsubscribe(k, l)
Unsubscribe == \E k \in SubKinds, l \in Listeners : UnsubscribeAs(k, l, "unsubscribe")

\* a component calls a function that subscribe returned, lines 207-209
InvokeHandle == \E h \in handles : UnsubscribeAs(h[1], h[2], "handle")

----------------------------------------------------------------------------
(***************************************************************************)
(* Spec: the connection life cycle, with no listener registered.           *)
(***************************************************************************)
Connect == ConnectWith(MaxSockets, {AllOk})
RetryTimer == RetryTimerWith(MaxSockets, {AllOk})
SocketOpen == SocketOpenWith({AllOk})
SocketFail == SocketFailWith({AllOk})
SocketClose == SocketCloseWith({AllOk})

Next ==
  \/ Connect
  \/ Disconnect
  \/ RetryTimer
  \/ SocketOpen
  \/ SocketFail
  \/ SocketClose
  \/ SendMessage

Spec == Init /\ [][Next]_vars

----------------------------------------------------------------------------
(***************************************************************************)
(* SpecRetry: the retry sequence left to itself.  The caller calls         *)
(* connect() when no retry is pending (at start, and after the client gave *)
(* up) and never calls disconnect().                                       *)
(***************************************************************************)
RetryConnect == timers = 0 /\ ConnectWith(MaxRetrySockets, {AllOk})
RetryRetryTimer == RetryTimerWith(MaxRetrySockets, {AllOk})

NextRetry ==
  \/ RetryConnect
  \/ RetryRetryTimer
  \/ SocketOpen
  \/ SocketFail
  \/ SocketClose

SpecRetry == Init /\ [][NextRetry]_vars

\* a WebSocket that is connecting opens or fails
ResolveAttempt == SocketOpen \/ SocketFailOf({"CONNECTING"}, {AllOk})

\* SpecRetry in which a retry timer that is pending fires and an attempt
\* that is running comes to its end
SpecRetryFair == SpecRetry /\ WF_vars(RetryRetryTimer) /\ WF_vars(ResolveAttempt)

----------------------------------------------------------------------------
(***************************************************************************)
(* SpecRefresh: a backend that accepts every connection and closes none.   *)
(* The url is valid, a WebSocket that is connecting opens, and the only    *)
(* WebSockets that close are those the client closed itself.               *)
(***************************************************************************)
RefreshConnect == ConnectWith(MaxRefreshSockets, {AllOk})
RefreshRetryTimer == RetryTimerWith(MaxRefreshSockets, {AllOk})
RefreshFail == SocketFailOf({"CLOSING"}, {AllOk})
RefreshClose == SocketCloseOf({"CLOSING"}, {AllOk})

NextRefresh ==
  \/ RefreshConnect
  \/ Disconnect
  \/ RefreshRetryTimer
  \/ SocketOpen
  \/ RefreshFail
  \/ RefreshClose

InitRefresh == Init /\ url = "valid"

SpecRefresh == InitRefresh /\ [][NextRefresh]_vars

----------------------------------------------------------------------------
(***************************************************************************)
(* SpecRouter: subscriptions and dispatch.  Callbacks may throw and may    *)
(* subscribe and unsubscribe callbacks while they run.  The retry timers   *)
(* armed when a connection closes stay pending.                            *)
(***************************************************************************)
\* no callback is registered for the kinds these two tasks dispatch
RouterConnect == ConnectWith(MaxRouterSockets, {AllOk})
RouterOpen == SocketOpenWith({AllOk})
RouterFail == SocketFailWith(AnyBehaviour)
RouterClose == SocketCloseWith(AnyBehaviour)
RouterMessage == SocketMessageFrom(TypedFrames, AnyBehaviour)

NextRouter ==
  \/ RouterConnect
  \/ RouterOpen
  \/ RouterFail
  \/ RouterClose
  \/ RouterMessage
  \/ Subscribe
  \/ Unsubscribe
  \/ InvokeHandle

InitRouter == Init /\ url = "valid"

SpecRouter == InitRouter /\ [][NextRouter]_vars

----------------------------------------------------------------------------
(***************************************************************************)
(* SpecResub: dispatch of worker_registered to callbacks that subscribe,   *)
(* unsubscribe, or unsubscribe and subscribe again, themselves or each     *)
(* other, while they run.                                                  *)
(***************************************************************************)
ResubBehaviours ==
  {[act |-> "ok", lis |-> ""]} \cup [act : {"unsub", "sub", "resub"}, lis : Listeners]

ResubSubscribe == SubscribeIn({"worker_registered"} \X Listeners)
ResubMessage == SocketMessageFrom(TypedFrames, [Listeners -> ResubBehaviours])

NextResub ==
  \/ RouterConnect
  \/ RouterOpen
  \/ ResubSubscribe
  \/ ResubMessage

SpecResub == InitRouter /\ [][NextResub]_vars

----------------------------------------------------------------------------
(***************************************************************************)
(* SpecFrames: every task of the client, on a few WebSockets.  Component f *)
(* listens to worker_registered, component g to the backend's own name of  *)
(* that event; the callbacks do nothing to the service.                    *)
(***************************************************************************)
FrameSubs == {<<"worker_registered", "f">>, <<"worker:registered", "g">>}

FramesConnect == ConnectWith(MaxFrameSockets, {AllOk})
FramesRetryTimer == RetryTimerWith(MaxFrameSockets, {AllOk})
FramesMessage == SocketMessageWith({AllOk})
FramesSubscribe == SubscribeIn(FrameSubs)
FramesUnsubscribe == \E p \in FrameSubs : UnsubscribeAs(p[1], p[2], "unsubscribe")

NextFrames ==
  \/ FramesConnect
  \/ Disconnect
  \/ FramesRetryTimer
  \/ SocketOpen
  \/ SocketFail
  \/ SocketClose
  \/ FramesMessage
  \/ SendMessage
  \/ FramesSubscribe
  \/ FramesUnsubscribe

SpecFrames == Init /\ [][NextFrames]_vars

----------------------------------------------------------------------------
(***************************************************************************)
(* SpecKinds: kinds and frame types that name members of Object.prototype. *)
(* Component f subscribes to, and unsubscribes from, worker_registered,    *)
(* toString, __proto__ and the keys the inherited members toString and     *)
(* __proto__ become when they index the table; the backend sends frames of *)
(* the types worker:registered, worker_registered, toString and __proto__. *)
(***************************************************************************)
PrototypeTypes == {"toString", "__proto__"}

KindSubs ==
  ({"worker_registered"} \cup PrototypeTypes
     \cup {RoutedKind(t) : t \in PrototypeTypes}) \X {"f"}

KindFrames ==
  {frame \in Frames : frame.type \in {"worker:registered", "worker_registered"}}
  \cup {[json |-> TRUE, type |-> t, payload |-> "w1"] : t \in PrototypeTypes}

KindsSubscribe == SubscribeIn(KindSubs)
KindsUnsubscribe == \E p \in KindSubs : UnsubscribeAs(p[1], p[2], "unsubscribe")
KindsMessage == SocketMessageFrom(KindFrames, {AllOk})

NextKinds ==
  \/ RouterConnect
  \/ RouterOpen
  \/ KindsSubscribe
  \/ KindsUnsubscribe
  \/ KindsMessage

SpecKinds == InitRouter /\ [][NextKinds]_vars

----------------------------------------------------------------------------
(***************************************************************************)
(* The EventSource client (src/frontend/src/services/socketService.ts):    *)
(* this.subscribers maps a kind to an array of callbacks.  T is the table  *)
(* and the invocations made so far; exc: an exception is in flight.        *)
(***************************************************************************)
\* the kind of the events the EventSource delivers in the model
SseKinds == {"dashboard_update"}

\* the kinds components subscribe to: that kind, and one that names a member
\* the table inherits from Object.prototype
SseSubKinds == SseKinds \cup {"toString"}

\* what a callback of the EventSource client does when it is invoked
SseBehaviours == {[act |-> "ok", lis |-> ""]} \cup [act : {"unsub", "sub"}, lis : Listeners]

InArray(list, l) == \E i \in 1..Len(list) : list[i] = l

\* subscribe(eventType, callback), lines 118-127: push.  For a kind that
\* names an inherited member, the test of line 119 sees that member, no
\* array is made, .push is not a function and the call throws a TypeError
sseSubscribe(T, k, l) ==
  IF Inherited(T.subscribers, k) THEN [T EXCEPT !.exc = TRUE]
  ELSE LET t == IF k \in DOMAIN T.subscribers THEN T.subscribers
                ELSE Put(T.subscribers, k, <<>>)
       IN [T EXCEPT !.subscribers = Put(t, k, Append(t[k], l))]

\* unsubscribe(eventType, callback), lines 129-135: filter makes a new
\* array.  An inherited member passes the test of line 130 and has no
\* .filter: the call throws
sseUnsubscribe(T, k, l) ==
  IF Inherited(T.subscribers, k) THEN [T EXCEPT !.exc = TRUE]
  ELSE IF k \notin DOMAIN T.subscribers THEN T
  ELSE [T EXCEPT !.subscribers[k] = SelectSeq(T.subscribers[k], LAMBDA c : c # l)]

\* the body of one callback invoked for kind k
sseRunCallback(T, k, beh) ==
  CASE beh.act = "ok"    -> T
    [] beh.act = "unsub" -> sseUnsubscribe(T, k, beh.lis)
    [] beh.act = "sub"   -> sseSubscribe(T, k, beh.lis)

\* try { callback(data) } catch, lines 141-145
sseTryCallback(T, k, beh) == [sseRunCallback(T, k, beh) EXCEPT !.exc = FALSE]

\* Array.prototype.forEach, lines 140-146, over the array list that
\* this.subscribers[eventType] was when the dispatch started: the elements
\* it had then are visited, whatever array the table holds by now
RECURSIVE sseForEach(_, _, _, _, _)
sseForEach(T, k, list, i, b) ==
  IF i > Len(list) THEN T
  ELSE LET l == list[i]
           T1 == [T EXCEPT !.invoked =
                    Append(T.invoked, [lis |-> l, live |-> InArray(T.subscribers[k], l)])]
       IN sseForEach(sseTryCallback(T1, k, b[l]), k, list, i + 1, b)

\* notifySubscribers(eventType, data), lines 137-147.  An inherited member
\* passes the test of line 138 and has no .forEach: the call throws
sseNotifySubscribers(T, k, b) ==
  IF Inherited(T.subscribers, k) THEN [T EXCEPT !.exc = TRUE]
  ELSE IF k \notin DOMAIN T.subscribers THEN T
  ELSE sseForEach(T, k, T.subscribers[k], 1, b)

\* the listener of the EventSource for kind k, lines 51-55: JSON.parse of
\* event.data, outside any try, then notifySubscribers; json: the data
\* parse.  A SyntaxError leaves the listener before any callback is invoked
sseListener(T, k, json, b) ==
  IF ~json THEN [T EXCEPT !.exc = TRUE]
  ELSE sseNotifySubscribers(T, k, b)

SseCur == [subscribers |-> sseSubscribers, invoked |-> <<>>, exc |-> FALSE]

\* install the result T of a task named o; the arrays of the model hold at
\* most MaxSseSubs callbacks: a task that would leave a longer one is not
\* explored
SseCommit(T, o) ==
  /\ \A k \in DOMAIN T.subscribers : Len(T.subscribers[k]) <= MaxSseSubs
  /\ sseSubscribers' = T.subscribers
  /\ sseInvoked' = T.invoked
  /\ sseOp' = o
  /\ UNCHANGED wsVars

\* a component calls subscribe(k, l)
SseSubscribe ==
  \E k \in SseSubKinds, l \in Listeners :
    SseCommit(sseSubscribe(SseCur, k, l), "subscribe")

\* a component calls unsubscribe(k, l)
SseUnsubscribe ==
  \E k \in SseSubKinds, l \in Listeners :
    SseCommit(sseUnsubscribe(SseCur, k, l), "unsubscribe")

\* the EventSource delivers an event of kind k, lines 45-90, whose data
\* parse or do not
SseEvent ==
  \E k \in SseKinds, json \in BOOLEAN, b \in [Listeners -> SseBehaviours] :
    SseCommit(sseListener(SseCur, k, json, b), "event")

NextSse ==
  \/ SseSubscribe
  \/ SseUnsubscribe
  \/ SseEvent

SpecSse == InitRouter /\ [][NextSse]_vars

----------------------------------------------------------------------------
(***************************************************************************)
(* Claims about the connection life cycle.                                 *)
(***************************************************************************)
Live == {i \in 1..Len(sockets) : sockets[i].rs \in {"CONNECTING", "OPEN"}}

\* C1: in every reachable state at most one WebSocket created by the client
\* is CONNECTING or OPEN.
C1_AtMostOneLiveTransport == Cardinality(Live) <= 1

\* C2: once the caller has called disconnect(), no task other than a
\* connect() call of the caller creates a WebSocket, also not a retry timer
\* that was armed before the disconnect() and fires after it.
C2_NoTransportAfterDisconnect ==
  [][(callerDisconnected /\ op' # "connect") => Len(sockets') = Len(sockets)]_vars

\* C3: after ten or more consecutive unexpected closes with no open in
\* between, exactly one max_retries_reached envelope has been dispatched
\* and no retry is pending.
C3_OneGiveUpAfterTenCloses ==
  closes >= 10 => (maxRetriesSent = 1 /\ timers = 0)

\* C4: the task in which the tenth consecutive open attempt fails dispatches
\* max_retries_reached exactly once and arms no retry timer.
C4_GiveUpOnTenthFailure ==
  [][(failedOpens = 9 /\ failedOpens' = 10) =>
       /\ Count(envelopes', "max_retries_reached") = 1
       /\ timers' = 0]_vars

\* C5: a connect() call of the caller that starts an attempt after
\* max_retries_reached was dispatched resets the reconnect counter to 0 and
\* clears the manual-disconnect flag.
C5_ConnectResetsCounter ==
  [][(op' = "connect" /\ connectionState = "disconnected" /\ maxRetriesSent >= 1
        /\ url = "valid") =>
       /\ reconnectAttempts' = 0
       /\ ~isManuallyDisconnected']_vars

\* C6: sendMessage called while getConnectionState() is not 'connected'
\* hands no frame to the transport.
C6_SendRejectedUnlessConnected ==
  (op = "send" /\ connectionState # "connected") => sendResult # "sent"

----------------------------------------------------------------------------
(***************************************************************************)
(* Claims about subscriptions and dispatch.                                *)
(***************************************************************************)
Invocations == 1..Len(invoked)

\* C7: a callback is invoked only while it is registered for the kind, and
\* once a callback invoked earlier in a dispatch has unsubscribed it, the
\* dispatch does not invoke it unless it was subscribed again in between.
C7_RemovedListenerNotInvoked ==
  /\ \A i \in Invocations : invoked[i].live
  /\ \A i, j \in Invocations :
       (/\ i < j
        /\ invoked[i].kind = invoked[j].kind
        /\ invoked[i].act = "unsub"
        /\ invoked[i].target = invoked[j].lis)
       => \E m \in (i + 1)..(j - 1) :
            /\ invoked[m].kind = invoked[i].kind
            /\ invoked[m].act = "sub"
            /\ invoked[m].target = invoked[i].target

\* a callback unsubscribed another one that the dispatch had still to visit,
\* and the dispatch did not invoke that one
C7_Witness ==
  \E i \in Invocations :
    /\ invoked[i].act = "unsub"
    /\ invoked[i].target # invoked[i].lis
    /\ invoked[i].target \in invoked[i].pending
    /\ \A j \in Invocations : j > i => invoked[j].lis # invoked[i].target

\* the table after the function subscribe returned for h is called
AfterHandle(S, h) == Settled(unsubscribe(S, h[1], h[2]))

\* C8: calling the function subscribe returned twice leaves the table as
\* calling it once does; a call that finds the callback already removed
\* changes nothing, and after a call the callback is not registered for the
\* kind.
C8_HandleIdempotent ==
  /\ \A h \in handles :
       AfterHandle(AfterHandle(Cur, h), h).subscribers = AfterHandle(Cur, h).subscribers
  /\ op = "handle" =>
       /\ ~Registered(subscribers, arg[1], arg[2])
       /\ ~Registered(before, arg[1], arg[2]) => subscribers = before

\* the function was called again after it had removed the callback, while
\* another callback was registered for the kind
C8_Witness ==
  /\ op = "handle"
  /\ ~Registered(before, arg[1], arg[2])
  /\ \E l \in Listeners : Registered(subscribers, arg[1], l)

\* C9: calling the function subscribe(k, f) returned removes f from k and
\* leaves every other callback of k, in its order, and every other kind as
\* they were.
C9_HandleRemovesOnlyThat ==
  op = "handle" =>
    /\ DOMAIN subscribers = DOMAIN before
    /\ \A k \in DOMAIN before :
         subscribers[k] = IF k = arg[1]
                          THEN SelectSeq(before[k], LAMBDA e : e.cb # arg[2])
                          ELSE before[k]

\* the function removed f from k while g was registered for k and f was
\* registered for another kind
C9_Witness ==
  /\ op = "handle"
  /\ Registered(before, arg[1], arg[2])
  /\ \E l \in Listeners \ {arg[2]} : Registered(subscribers, arg[1], l)
  /\ \E k \in SubKinds \ {arg[1]} : Registered(subscribers, k, arg[2])

Thrown == \E i \in Invocations : invoked[i].act = "throw"
Quiet == \A i \in Invocations : invoked[i].act \in {"ok", "throw"}
InvokedFor(k) == SelectSeq(invoked, LAMBDA e : e.kind = k)
Callbacks(list) == [i \in 1..Len(list) |-> list[i].cb]
Invokees(log) == [i \in 1..Len(log) |-> log[i].lis]

\* every callback registered for a dispatched kind was invoked once, in
\* order, whether or not callbacks threw
AllInvoked ==
  \A i \in 1..Len(envelopes) :
    (envelopes[i] \in DOMAIN before /\ Quiet)
    => Invokees(InvokedFor(envelopes[i])) = Callbacks(before[envelopes[i]])

\* a task in which a callback threw leaves the connection as the same task
\* without the throw does
ThrowIsolated ==
  Thrown' =>
    /\ op' = "message" =>
         UNCHANGED <<connectionState, reconnectAttempts, isManuallyDisconnected,
                     websocket, sockets, timers>>
    /\ op' \in {"close", "fail"} =>
         /\ connectionState' = "disconnected"
         /\ websocket' = websocket
         /\ isManuallyDisconnected' = isManuallyDisconnected
         /\ IF isManuallyDisconnected
            THEN UNCHANGED <<reconnectAttempts, timers>>
            ELSE IF reconnectAttempts >= maxReconnectAttempts
            THEN /\ UNCHANGED <<reconnectAttempts, timers>>
                 /\ Count(envelopes', "max_retries_reached") = 1
            ELSE /\ reconnectAttempts' = reconnectAttempts + 1
                 /\ timers' = timers + 1

\* C10: when a callback throws during a dispatch, the other callbacks of
\* the kind are still invoked, the handler that dispatched runs to its end,
\* and the connection state, the counter, the transport and later
\* dispatches are as they are without the throw.
C10_ListenerThrowIsolated == []AllInvoked /\ [][ThrowIsolated]_vars

\* the first callback invoked for a close threw, the second was invoked
\* all the same and the retry was armed
C10_Witness ==
  /\ op \in {"close", "fail"}
  /\ Len(invoked) >= 2
  /\ invoked[1].act = "throw"
  /\ timers = 1
  /\ reconnectAttempts = 1

----------------------------------------------------------------------------
(***************************************************************************)
(* Claims about inbound frames.                                            *)
(***************************************************************************)
\* the last task was a frame that parsed and has a type
Typed == op = "message" /\ arg[2].json /\ arg[2].type # ""

\* C11: a frame whose type the mapping renames is delivered to the
\* callbacks registered for the public kind and to no callback registered
\* for the backend's type; a frame of any other type is delivered to the
\* callbacks registered for exactly its type, and to no other callback.
C11_FrameRoutedByMappedKind ==
  Typed =>
    LET t == arg[2].type
        k == IF t \in DOMAIN Mapping THEN Mapping[t] ELSE t
    IN /\ \A i \in Invocations : invoked[i].kind = k
       /\ Invokees(invoked) = IF k \in DOMAIN before THEN Callbacks(before[k]) ELSE <<>>

\* C12: the message object a callback is given for a frame has the kind it
\* was dispatched under in its type field, and the payload of the frame.
C12_EnvelopeCarriesMappedKind ==
  Typed =>
    \A i \in Invocations :
      /\ invoked[i].msg.type = invoked[i].kind
      /\ invoked[i].msg.payload = arg[2].payload

\* C13: a frame that parses and has no type is dispatched to no callback,
\* and every typed frame, also one that arrives after such a frame, is
\* dispatched once, to every callback registered for its kind.
C13_UntypedFrameDropped ==
  op = "message" =>
    /\ (arg[2].json /\ arg[2].type = "") => (dispatched = <<>> /\ invoked = <<>>)
    /\ Typed =>
         /\ Len(dispatched) = 1
         /\ dispatched[1].kind \in DOMAIN before =>
              Invokees(invoked) = Callbacks(before[dispatched[1].kind])

\* a typed frame was dispatched to a callback after a frame without a type
\* had been discarded
C13_Witness ==
  /\ Typed
  /\ "untyped" \in discards
  /\ invoked # <<>>

\* C14: a frame that does not parse is dispatched to nobody and leaves the
\* connection state, the WebSockets, the counter, the manual flag, the
\* subscription table and the retry timers as they were; the WebSocket that
\* delivered it stays open.
C14_UnparsableFrameDiscarded ==
  [][(op' = "message" /\ ~arg'[2].json) =>
       /\ dispatched' = <<>>
       /\ invoked' = <<>>
       /\ sockets'[arg'[1]].rs = "OPEN"
       /\ UNCHANGED <<connectionState, websocket, sockets, reconnectAttempts,
                      isManuallyDisconnected, subscribers, timers>>]_vars

\* a frame that does not parse arrived on the connected WebSocket while a
\* callback was registered
C14_Witness ==
  /\ op = "message"
  /\ ~arg[2].json
  /\ connectionState = "connected"
  /\ websocket = arg[1]
  /\ \E k \in DOMAIN subscribers : subscribers[k] # <<>>

----------------------------------------------------------------------------
(***************************************************************************)
(* Claims about the order and the effect of the connection events.         *)
(***************************************************************************)
\* the connection_closed and connection_open envelopes of the trail
Observed == SelectSeq(trail, LAMBDA e : e.kind # "connection_error")

\* C15: when an established connection has closed unexpectedly once and the
\* first retry opens, the listeners have been sent one connection_closed and
\* then one connection_open; the counter, 1 since the close was handled, is
\* 0 when connection_open is dispatched.
C15_CloseThenReopen ==
  [][(op' = "open" /\ closes = 1 /\ failedOpens = 0) =>
       /\ reconnectAttempts = 1
       /\ reconnectAttempts' = 0
       /\ Observed' = <<[kind |-> "connection_closed", attempts |-> 0],
                        [kind |-> "connection_open", attempts |-> 0]>>]_vars

\* the first WebSocket was open and closed, and the second one, created by
\* the retry timer, has just opened
C15_Witness ==
  /\ op = "open"
  /\ Len(sockets) = 2
  /\ sockets[1].est
  /\ sockets[1].rs = "CLOSED"
  /\ websocket = 2
  /\ lastDelay = baseDelay
  /\ Len(Observed) = 2

\* C16: a frame of a WebSocket is dispatched only after the connection_open
\* of that WebSocket and before its connection_closed or connection_error;
\* each frame is dispatched, as it is, in the task that receives it; the
\* open event announces the WebSocket once, the close event ends it.
C16_DispatchOrderPerConnection ==
  [][/\ (op' = "message" /\ dispatched' # <<>>) =>
          /\ phase[arg'[1]] = "open"
          /\ Len(dispatched') = 1
          /\ dispatched'[1].msg.payload = arg'[2].payload
     /\ op' = "open" => (phase[arg'[1]] = "new" /\ phase'[arg'[1]] = "open")
     /\ op' \in {"close", "fail"} => phase'[arg'[1]] = "ended"]_vars

\* a frame of the second WebSocket was dispatched after the first one ended
C16_Witness ==
  /\ op = "message"
  /\ dispatched # <<>>
  /\ arg[1] = 2
  /\ phase = <<"ended", "open">>

\* C17: getConnectionState() is 'connected' exactly when this.websocket is
\* an open WebSocket.
C17_ConnectedIffOpen ==
  (connectionState = "connected") <=> (websocket # 0 /\ sockets[websocket].rs = "OPEN")

\* C18: a connect() attempt whose WebSocket cannot be constructed dispatches
\* connection_error or connection_closed.
C18_ConstructFailureSurfaced ==
  (op \in {"connect", "timer"} /\ url = "invalid") =>
    \E i \in 1..Len(envelopes) : envelopes[i] \in {"connection_error", "connection_closed"}

\* C19: after an open event the counter is 0, the state is connected and
\* the event has dispatched connection_open once.
C19_OpenResetsCounter ==
  op = "open" =>
    /\ reconnectAttempts = 0
    /\ connectionState = "connected"
    /\ Count(envelopes, "connection_open") = 1

\* the WebSocket opened after three attempts or more had failed
C19_Witness ==
  /\ op = "open"
  /\ Len(sockets) >= 4
  /\ \A i \in 1..(Len(sockets) - 1) : ~sockets[i].est
  /\ lastDelay >= 4 * baseDelay

\* C20: no task other than an open event decreases the counter.
C20_OnlyOpenResetsCounter ==
  [][op' # "open" => reconnectAttempts' >= reconnectAttempts]_vars

\* the caller's connect() started an attempt while the counter was not 0
C20_Witness ==
  /\ op = "connect"
  /\ connectionState = "connecting"
  /\ reconnectAttempts > 0

----------------------------------------------------------------------------
(***************************************************************************)
(* Claims about retries.                                                   *)
(***************************************************************************)
\* C21: a close event, alone or after an error event of the same failure,
\* that finds the manual flag clear and the counter below 10 leaves the
\* state disconnected, the counter one higher and one more retry timer
\* pending; a close event that finds the flag set arms no retry timer.
C21_CloseSchedulesOneRetry ==
  [][op' \in {"close", "fail"} =>
       /\ connectionState' = "disconnected"
       /\ (~isManuallyDisconnected /\ reconnectAttempts < maxReconnectAttempts) =>
            (timers' = timers + 1 /\ reconnectAttempts' = reconnectAttempts + 1)
       /\ isManuallyDisconnected =>
            (timers' = timers /\ reconnectAttempts' = reconnectAttempts)]_vars

\* an error event and a close event of one failure armed the only retry
C21_Witness ==
  /\ op = "fail"
  /\ ~isManuallyDisconnected
  /\ timers = 1
  /\ reconnectAttempts = 1
  /\ envelopes = <<"connection_error", "connection_closed">>

\* the moves of connectionState the state machine has
Edges == {<<"disconnected", "connecting">>, <<"connecting", "connected">>,
          <<"connecting", "disconnected">>, <<"connected", "disconnected">>}
Move(a, b) == a = b \/ <<a, b>> \in Edges

\* C22: every assignment to connectionState follows an edge of the state
\* machine; the retry timer assigns disconnected and then connecting, and a
\* connect() whose WebSocket cannot be constructed connecting and then
\* disconnected.
C22_StateMachineEdges ==
  [][IF op' = "timer"
     THEN Move(connectionState, "disconnected") /\ Move("disconnected", connectionState')
     ELSE IF op' = "connect"
     THEN \/ Move(connectionState, connectionState')
          \/ Move(connectionState, "connecting") /\ Move("connecting", connectionState')
     ELSE Move(connectionState, connectionState')]_vars

\* the delays of lines 185-186 for the counter values 1 to 10, in ms
DelayTable == <<1000, 2000, 4000, 8000, 16000, 32000, 32000, 32000, 32000, 32000>>

\* C23: the retry armed when the counter becomes k, 1 <= k <= 10, has the
\* delay min(1000 * 2^(k-1), 32000) ms; the delay is at most 32000 ms and
\* not below the delay of the retry armed for k - 1.
C23_BackoffDelay ==
  [][reconnectAttempts' = reconnectAttempts + 1 =>
       /\ reconnectAttempts' \in 1..10
       /\ lastDelay' = DelayTable[reconnectAttempts']
       /\ lastDelay' <= 32000
       /\ reconnectAttempts' > 1 => lastDelay' >= lastDelay]_vars

\* the seventh consecutive retry was armed with the capped delay
C23_Witness ==
  /\ reconnectAttempts = 7
  /\ lastDelay = 32000
  /\ timers = 1

\* C24: after a close event that finds the manual flag clear, a retry is
\* pending or max_retries_reached has been dispatched, and when pending
\* timers fire and running attempts end, the client becomes connected or
\* dispatches max_retries_reached (or the behaviour has used up the
\* WebSockets of the model).
C24_RetryUntilConnectedOrGivenUp ==
  /\ []((op \in {"close", "fail"} /\ ~isManuallyDisconnected) =>
         (timers > 0 \/ maxRetriesSent >= 1))
  /\ (op \in {"close", "fail"} /\ ~isManuallyDisconnected)
       ~> \/ connectionState = "connected"
          \/ maxRetriesSent >= 1
          \/ Len(sockets) >= MaxRetrySockets

\* a connection that had been open closed, and the client gave up after the
\* retries that followed had all failed
C24_Witness ==
  /\ op = "fail"
  /\ maxRetriesSent = 1
  /\ timers = 0
  /\ sockets[1].est
  /\ \A i \in 2..Len(sockets) : ~sockets[i].est

\* C25: the EventSource client invokes a callback only while it is in the
\* array of the kind, also when a callback invoked earlier in the same
\* dispatch has removed it (second invocations of a callback that was
\* subscribed twice are left aside).
C25_SseRemovedListenerNotInvoked ==
  \A i \in 1..Len(sseInvoked) :
    \/ sseInvoked[i].live
    \/ \E j \in 1..(i - 1) : sseInvoked[j].lis = sseInvoked[i].lis

\* C26: a close or error event of a WebSocket that is not this.websocket,
\* while this.websocket is another WebSocket, leaves connectionState, the
\* counter and the retry timers as they were.
C26_StaleEventIgnored ==
  [][(op' \in {"close", "fail"} /\ websocket # 0 /\ arg'[1] # websocket) =>
       UNCHANGED <<connectionState, reconnectAttempts, timers>>]_vars

\* C27: with a backend that accepts every connection and closes none, once
\* the client is connected and the caller's last call was connect(), no
\* task of the client creates a WebSocket or closes an open one.
C27_StaysConnected ==
  [][(connectionState = "connected" /\ ~callerDisconnected
        /\ op' \notin {"connect", "disconnect"}) =>
       /\ Len(sockets') = Len(sockets)
       /\ \A i \in 1..Len(sockets) :
            sockets[i].rs = "OPEN" => sockets'[i].rs = "OPEN"]_vars

\* C28: at most one retry timer is pending, here for a url the WebSocket
\* constructor accepts.
C28_AtMostOneRetryTimer == url = "valid" => timers <= 1

\* C29: a dispatch invokes no callback twice and ends before the model's
\* limit of invocations, whatever the callbacks subscribe and unsubscribe.
C29_EachListenerOncePerDispatch ==
  /\ \A i, j \in Invocations :
       (i < j /\ invoked[i].kind = invoked[j].kind) => invoked[i].lis # invoked[j].lis
  /\ Len(invoked) < MaxVisits

\* C30: no task other than subscribe, unsubscribe and the function subscribe
\* returned changes the subscription table, so that a frame of a later
\* WebSocket is dispatched to the callbacks registered before.
C30_TableUnchangedByLifeCycle ==
  [][op' \notin {"subscribe", "unsubscribe", "handle"} =>
       /\ subscribers' = subscribers
       /\ (Typed' /\ dispatched'[1].kind \in DOMAIN subscribers) =>
            Invokees(invoked') = Callbacks(subscribers[dispatched'[1].kind])]_vars

\* after a disconnect() and a connect() of the caller, a frame of the second
\* WebSocket reached the callback f
C30_Witness ==
  /\ Typed
  /\ arg[1] = 2
  /\ sockets[1].rs = "CLOSED"
  /\ ~callerDisconnected
  /\ Invokees(invoked) = <<"f">>

====
